---- MODULE Spec2Model ----
(***************************************************************************)
(* Model of the real-time audio session pipeline of server.js: the        *)
(* WebSocket connection handler, the per-message handler, the async       *)
(* handleMediaMessage pipeline (transcribeAudio -> generateLLMReply ->    *)
(* synthesizeSpeech -> pcmToMuLaw -> ws.send x2), the `connections`       *)
(* registry and the `conversationHistory` store.                          *)
(*                                                                         *)
(* JavaScript runs each handler to completion up to its next real         *)
(* suspension point (an await on network I/O).  One action of the model   *)
(* is one such run: an await on an already-settled promise resumes in a   *)
(* microtask, before any other event, and is part of the same action.     *)
(*                                                                         *)
(* `sent[s]` is the sequence of ws.send(...) calls the code makes on      *)
(* socket s, in call order.                                                *)
(***************************************************************************)
EXTENDS Integers, Sequences, FiniteSets, TLC

\* ---- bounds -------------------------------------------------------------
MaxSockets == 2
MaxCycles == 2
MaxSamples == 1
\* connections accepted plus reply cycles started, over a whole run
MaxEvents == 4

Sockets == 1..MaxSockets
CallIds == {1, 2}
NoCid == 0
NoSocket == 0

\* ---- text values --------------------------------------------------------
\* A string is modelled by its class and, for an utterance or a reply, the
\* reply cycle it belongs to.
Empty == [tag |-> "empty", k |-> 0]
Blank == [tag |-> "blank", k |-> 0]
Utter(k) == [tag |-> "utter", k |-> k]
LLMText(k) == [tag |-> "llm", k |-> k]

\* The value of a cycle's transcript or reply before it is computed.
Pending == [tag |-> "pending", k |-> 0]

\* if (!transcript) return;  -- only the empty string is falsy
NoTranscriptMut(t) == FALSE
NoTranscript(t) == t.tag = "empty"

\* !transcript || transcript.trim().length === 0
IsBlank(t) == t.tag \in {"empty", "blank"}

\* if (!text) return Buffer.alloc(0);
NoText(t) == t.tag = "empty"

\* `You said: ${transcript}`
FallbackMut(t) == Empty
Fallback(t) == [tag |-> "echo", k |-> t.k]

\* pcmToMuLaw keeps one 16-bit sample out of two (i += 4 over the bytes):
\* n input samples give ceil(n/2) output bytes.
PcmToMuLawLen(n) == (n + 1) \div 2

\* ---- state --------------------------------------------------------------
VARIABLES
  uncaught,             \* the error that escaped a handler and ended the process
  GOOGLE_SPEECH_API_KEY,\* TRUE iff the key is configured
  sockState,            \* socket -> "fresh" | "open" | "closing" | "closed"
  sockCid,              \* socket -> callSid query parameter (NoCid if absent)
  handlers,             \* socket -> message/close listeners attached
  connections,          \* callSid -> socket (NoSocket if no entry)
  conversationHistory,  \* callSid -> [defined, turns]
  cycles,               \* invocations of handleMediaMessage past line 169
  sent,                 \* socket -> sequence of ws.send calls
  codec                 \* the sample or buffer on its way through pcmToMuLaw / muLawToPcm

sessionVars == <<uncaught, GOOGLE_SPEECH_API_KEY, sockState, sockCid, handlers,
                 connections, conversationHistory, cycles, sent>>

vars == <<sessionVars, codec>>

NoError == "none"
ProcessUp == uncaught = NoError

Cycles == 1..Len(cycles)

Events == Cardinality({s \in Sockets : sockState[s] # "fresh"}) + Len(cycles)

\* A cycle whose invocation of handleMediaMessage has returned or thrown:
\* its locals are gone.
Finished ==
  [sock |-> NoSocket, ws |-> NoSocket, pc |-> "done", transcript |-> Pending,
   reply |-> Pending, llmFailed |-> FALSE]

\* No sample in the codec.
CodecIdle ==
  [pc |-> "idle", x |-> 0, sign |-> 0, magnitude |-> 0, exponent |-> 0,
   mantissa |-> 0, muLaw |-> 0, sample |-> 0]

InFlight(k) == cycles[k].pc \in {"stt", "llm", "tts"}

SessionInit ==
  /\ uncaught = NoError
  /\ GOOGLE_SPEECH_API_KEY \in BOOLEAN
  /\ sockState = [s \in Sockets |-> "fresh"]
  /\ sockCid = [s \in Sockets |-> NoCid]
  /\ handlers = [s \in Sockets |-> FALSE]
  /\ connections = [c \in CallIds |-> NoSocket]
  /\ conversationHistory = [c \in CallIds |-> [defined |-> FALSE, turns |-> <<>>]]
  /\ cycles = <<>>
  /\ sent = [s \in Sockets |-> <<>>]

Init ==
  /\ SessionInit
  /\ codec = CodecIdle

\* An error that leaves an async listener is an unhandled rejection, which
\* ends a Node 18 process: its sockets, registry, histories and pending
\* work are gone.
Exit(err) ==
  /\ uncaught' = err
  /\ sockState' = [s \in Sockets |-> IF sockState[s] = "fresh" THEN "fresh" ELSE "closed"]
  /\ handlers' = [s \in Sockets |-> FALSE]
  /\ connections' = [c \in CallIds |-> NoSocket]
  /\ conversationHistory' = [c \in CallIds |-> [defined |-> FALSE, turns |-> <<>>]]
  /\ cycles' = [k \in Cycles |-> Finished]
  /\ UNCHANGED <<codec, GOOGLE_SPEECH_API_KEY, sockCid, sent>>

\* ---- registry -----------------------------------------------------------
\* connections[callSid] = ws
Register(reg, c, s) == [reg EXCEPT ![c] = s]

\* connections[callSid]: undefined when there is no such property
Lookup(reg, c) == IF c \in DOMAIN reg THEN reg[c] ELSE NoSocket

\* delete connections[callSid]
UnregisterMut(reg, c) == reg
Unregister(reg, c) == [reg EXCEPT ![c] = NoSocket]

\* ---- wss.on('connection') ----------------------------------------------
AttachHandlersMut(c) == TRUE
AttachHandlers(c) == c # NoCid

\* Sockets are numbered in the order in which they connect, and call
\* identifiers in the order in which they are first used.
Connection(s, c) ==
  /\ ProcessUp
  /\ sockState[s] = "fresh"
  /\ Events < MaxEvents
  /\ \A r \in Sockets : r < s => sockState[r] # "fresh"
  /\ \A d \in CallIds : d < c => \E r \in Sockets : sockCid[r] = d
  /\ sockCid' = [sockCid EXCEPT ![s] = c]
  /\ handlers' = [handlers EXCEPT ![s] = AttachHandlers(c)]
  /\ IF c = NoCid
       THEN /\ sockState' = [sockState EXCEPT ![s] = "closing"]
            /\ UNCHANGED connections
       ELSE /\ sockState' = [sockState EXCEPT ![s] = "open"]
            /\ connections' = Register(connections, c, s)
  /\ UNCHANGED <<codec, uncaught, GOOGLE_SPEECH_API_KEY, conversationHistory, cycles, sent>>

\* ---- ws.on('close') -----------------------------------------------------
SocketClose(s) ==
  /\ ProcessUp
  /\ sockState[s] \in {"open", "closing"}
  /\ sockState' = [sockState EXCEPT ![s] = "closed"]
  /\ connections' = IF handlers[s] THEN Unregister(connections, sockCid[s])
                                   ELSE connections
  /\ UNCHANGED <<codec, uncaught, GOOGLE_SPEECH_API_KEY, sockCid, handlers,
                 conversationHistory, cycles, sent>>

\* ---- ws.on('message') --------------------------------------------------
\* The 'message' and 'close' events reach a socket until it is closed; a
\* socket on which ws.close() was called still receives what the peer sent
\* before its own close frame.
Deliverable(s) == sockState[s] \in {"open", "closing"}

\* A message on a socket that has no 'message' listener.
NoListener(s) ==
  /\ ProcessUp
  /\ Deliverable(s)
  /\ ~handlers[s]
  /\ UNCHANGED vars

\* JSON.parse throws: caught, logged, return.
OnMessageBadJson(s) ==
  /\ ProcessUp
  /\ Deliverable(s)
  /\ handlers[s]
  /\ UNCHANGED vars

\* JSON.parse('null') is null: message.event throws a TypeError outside the
\* try block and leaves the async listener.
OnMessageNull(s) ==
  /\ ProcessUp
  /\ Deliverable(s)
  /\ handlers[s]
  /\ Exit("TypeError")

\* A JSON value whose event is neither 'media' nor 'closed' (or is absent).
OnMessageOther(s) ==
  /\ ProcessUp
  /\ Deliverable(s)
  /\ handlers[s]
  /\ UNCHANGED vars

\* event === 'closed': ws.close(); delete connections[callSid]
OnMessageClosed(s) ==
  /\ ProcessUp
  /\ Deliverable(s)
  /\ handlers[s]
  /\ sockState' = [sockState EXCEPT ![s] = "closing"]
  /\ connections' = Unregister(connections, sockCid[s])
  /\ UNCHANGED <<codec, uncaught, GOOGLE_SPEECH_API_KEY, sockCid, handlers,
                 conversationHistory, cycles, sent>>

\* ---- handleMediaMessage ------------------------------------------------
NewCycle(s) ==
  [sock |-> s, ws |-> Lookup(connections, sockCid[s]), pc |-> "stt",
   transcript |-> Pending, reply |-> Pending, llmFailed |-> FALSE]

callSid(k) == sockCid[cycles[k].sock]

\* ws.send(JSON.stringify({event:'clear'})); ws.send(JSON.stringify({event:
\* 'media', media:{payload}})) -- two synchronous calls, nothing between.
\* A media entry records the reply text its payload was synthesized from
\* and the payload's length in bytes.
BurstMut(k, r, len) ==
  << [event |-> "media", cycle |-> k, text |-> r, len |-> len],
     [event |-> "clear", cycle |-> k, text |-> Empty, len |-> 0] >>
Burst(k, r, len) ==
  << [event |-> "clear", cycle |-> k, text |-> Empty, len |-> 0],
     [event |-> "media", cycle |-> k, text |-> r, len |-> len] >>

SendBurst(k, r, len) ==
  sent' = [sent EXCEPT ![cycles[k].ws] = @ \o Burst(k, r, len)]

\* const ws = connections[callSid]; if (!ws) return;
NoSessionMut(ws) == FALSE
NoSession(ws) == ws = NoSocket

\* event === 'media': handleMediaMessage up to its first suspension.  With
\* no speech key transcribeAudio returns '' without suspending and the
\* cycle ends in the same run.
OnMessageMedia(s, hasPayload) ==
  /\ ProcessUp
  /\ Deliverable(s)
  /\ handlers[s]
  /\ IF ~hasPayload \/ NoSession(Lookup(connections, sockCid[s]))
       THEN UNCHANGED cycles
       ELSE /\ Len(cycles) < MaxCycles
            /\ Events < MaxEvents
            /\ cycles' = Append(cycles,
                  IF GOOGLE_SPEECH_API_KEY THEN NewCycle(s) ELSE Finished)
  /\ UNCHANGED <<codec, uncaught, GOOGLE_SPEECH_API_KEY, sockState, sockCid, handlers,
                 connections, conversationHistory, sent>>

\* synthesizeSpeech(reply) up to its suspension, or through the send when
\* it returns the empty buffer at once.
AfterReply(k, t, r, failed, hist) ==
  /\ conversationHistory' = hist
  /\ IF NoText(r)
       THEN /\ cycles' = [cycles EXCEPT ![k] = Finished]
            /\ SendBurst(k, r, PcmToMuLawLen(0))
       ELSE /\ cycles' = [cycles EXCEPT ![k].pc = "tts", ![k].transcript = t,
                            ![k].reply = r, ![k].llmFailed = failed]
            /\ UNCHANGED sent

\* The code after `await transcribeAudio(...)`, up to the next suspension.
AfterTranscript(k, t) ==
  IF NoTranscript(t)
    THEN /\ cycles' = [cycles EXCEPT ![k] = Finished]
         /\ UNCHANGED <<conversationHistory, sent>>
    ELSE IF IsBlank(t)
      THEN AfterReply(k, t, Empty, FALSE, conversationHistory)
      ELSE /\ cycles' = [cycles EXCEPT ![k].pc = "llm", ![k].transcript = t]
           /\ conversationHistory' =
                [conversationHistory EXCEPT ![callSid(k)].defined = TRUE]
           /\ UNCHANGED sent

\* transcribeAudio: the speech request returns, with or without a result.
TranscribeReturn(k, t) ==
  /\ ProcessUp
  /\ cycles[k].pc = "stt"
  /\ AfterTranscript(k, t)
  /\ UNCHANGED <<codec, uncaught, GOOGLE_SPEECH_API_KEY, sockState, sockCid, handlers,
                 connections>>

\* transcribeAudio: the speech request fails; caught, returns ''.
TranscribeFail(k) ==
  /\ ProcessUp
  /\ cycles[k].pc = "stt"
  /\ AfterTranscript(k, Empty)
  /\ UNCHANGED <<codec, uncaught, GOOGLE_SPEECH_API_KEY, sockState, sockCid, handlers,
                 connections>>

\* conversationHistory[callSid].push(user); .push(assistant)
PushExchangeMut(hist, c, t, r) ==
  [hist EXCEPT ![c].turns = << [role |-> "user", content |-> t] >> \o @
                             \o << [role |-> "assistant", content |-> r] >>]
PushExchange(hist, c, t, r) ==
  [hist EXCEPT ![c].turns = @ \o << [role |-> "user", content |-> t],
                                    [role |-> "assistant", content |-> r] >>]

\* generateLLMReply: the chat request returns; r is the trimmed content.
LLMReturn(k, r) ==
  /\ ProcessUp
  /\ cycles[k].pc = "llm"
  /\ AfterReply(k, cycles[k].transcript, r, FALSE,
                PushExchange(conversationHistory, callSid(k),
                             cycles[k].transcript, r))
  /\ UNCHANGED <<codec, uncaught, GOOGLE_SPEECH_API_KEY, sockState, sockCid, handlers,
                 connections>>

\* generateLLMReply: the chat request fails (or its body has no choices);
\* caught, returns the echo.
LLMFail(k) ==
  /\ ProcessUp
  /\ cycles[k].pc = "llm"
  /\ AfterReply(k, cycles[k].transcript, Fallback(cycles[k].transcript), TRUE,
                conversationHistory)
  /\ UNCHANGED <<codec, uncaught, GOOGLE_SPEECH_API_KEY, sockState, sockCid, handlers,
                 connections>>

\* synthesizeSpeech: Polly returns n 16-bit samples; pcmToMuLaw; send.
SynthReturn(k, n) ==
  /\ ProcessUp
  /\ cycles[k].pc = "tts"
  /\ cycles' = [cycles EXCEPT ![k] = Finished]
  /\ SendBurst(k, cycles[k].reply, PcmToMuLawLen(n))
  /\ UNCHANGED <<codec, uncaught, GOOGLE_SPEECH_API_KEY, sockState, sockCid, handlers,
                 connections, conversationHistory>>

\* synthesizeSpeech: pollyClient.send rejects.  Nothing catches it: it
\* leaves handleMediaMessage and the async 'message' listener.
SynthFail(k) ==
  /\ ProcessUp
  /\ cycles[k].pc = "tts"
  /\ Exit("SynthesisError")

\* ---- specification -----------------------------------------------------
Next ==
  \/ \E s \in Sockets, c \in CallIds \cup {NoCid} : Connection(s, c)
  \/ \E s \in Sockets : SocketClose(s)
  \/ \E s \in Sockets : NoListener(s)
  \/ \E s \in Sockets : OnMessageBadJson(s)
  \/ \E s \in Sockets : OnMessageNull(s)
  \/ \E s \in Sockets : OnMessageOther(s)
  \/ \E s \in Sockets : OnMessageClosed(s)
  \/ \E s \in Sockets, p \in BOOLEAN : OnMessageMedia(s, p)
  \/ \E k \in Cycles : \E t \in {Empty, Blank, Utter(k)} : TranscribeReturn(k, t)
  \/ \E k \in Cycles : TranscribeFail(k)
  \/ \E k \in Cycles : \E r \in {Empty, LLMText(k)} : LLMReturn(k, r)
  \/ \E k \in Cycles : LLMFail(k)
  \/ \E k \in Cycles, n \in 1..MaxSamples : SynthReturn(k, n)
  \/ \E k \in Cycles : SynthFail(k)

\* The session pipeline; the codec functions are exercised on their own
\* in SpecCodec below.
Spec == Init /\ [][Next]_vars

\* ---- audio codec -------------------------------------------------------
\* readInt16LE / writeInt16LE range
Int16Min == -32768
Int16Max == 32767

RECURSIVE Pow2(_)
Pow2(n) == IF n = 0 THEN 1 ELSE 2 * Pow2(n - 1)

\* const sign = (x >> 8) & 0x80;
Sign(x) == (((x \div 256) % 256) \div 128) * 128

\* Math.abs(x); if (magnitude > 32635) magnitude = 32635;
Magnitude(x) ==
  LET a == IF x < 0 THEN -x ELSE x IN IF a > 32635 THEN 32635 ELSE a

\* Math.floor(Math.log1p(magnitude / 32) / Math.LN2): the e with
\* 2^e <= 1 + magnitude/32 < 2^(e+1).
Exponent(m) ==
  CHOOSE e \in 0..15 : 32 * Pow2(e) <= 32 + m /\ 32 + m < 32 * Pow2(e + 1)

\* (magnitude >> (exponent + 3)) & 0x0F
Mantissa(m, e) == (m \div Pow2(e + 3)) % 16

\* sign | (exponent << 4) | mantissa, before the inversion
Fields(sg, e, mt) ==
  LET w == e * 16
  IN  mt + w + (IF sg = 128 /\ (w \div 128) % 2 = 0 THEN 128 ELSE 0)

\* muLawBuffer[i] = ~(...): the byte stored is the low 8 bits
Invert(v) == (-v - 1) % 256

\* muLawToPcm on one byte: c = ~b; mantissa = c & 0x0F; exponent =
\* (c & 0x70) >> 4; magnitude = ((mantissa << 4) + 0x08) << (exponent + 3);
\* if (c & 0x80) magnitude = -magnitude
MuLawSample(b) ==
  LET c == -b - 1
      mantissa == c % 16
      exponent == (c \div 16) % 8
      magnitude == (mantissa * 16 + 8) * Pow2(exponent + 3)
  IN  IF (c \div 128) % 2 = 1 THEN -magnitude ELSE magnitude

CodecInit ==
  /\ SessionInit
  /\ GOOGLE_SPEECH_API_KEY = FALSE
  /\ codec \in {[CodecIdle EXCEPT !.pc = "pcm", !.x = x] : x \in Int16Min..Int16Max}

\* pcmToMuLaw, the body of its second loop for one sample x
Encode ==
  /\ codec.pc = "pcm"
  /\ LET sg == Sign(codec.x)
         m == Magnitude(codec.x)
         e == Exponent(m)
         mt == Mantissa(m, e)
     IN  codec' = [codec EXCEPT !.pc = "mulaw", !.sign = sg, !.magnitude = m,
                                !.exponent = e, !.mantissa = mt,
                                !.muLaw = Invert(Fields(sg, e, mt))]
  /\ UNCHANGED sessionVars

\* muLawToPcm on the encoded byte; result.writeInt16LE(sample, ...) throws a
\* RangeError for a value outside the 16-bit range.
Decode ==
  /\ codec.pc = "mulaw"
  /\ LET y == MuLawSample(codec.muLaw)
     IN  codec' = [codec EXCEPT !.sample = y,
                     !.pc = IF y < Int16Min \/ y > Int16Max THEN "RangeError"
                                                             ELSE "decoded"]
  /\ UNCHANGED sessionVars

CodecNext ==
  \/ Encode
  \/ Decode

SpecCodec == CodecInit /\ [][CodecNext]_vars

\* ---- muLawToPcm on a whole buffer --------------------------------------
\* 8 kHz samples in a buffer handed to the codec
MaxFrames == 1

Bytes == 0..255

\* result.writeInt16LE(sample, i * 2): the two bytes written, low byte first
WriteInt16LE(y) == <<y % 256, (y \div 256) % 256>>

\* The loop of muLawToPcm when no write throws: two bytes per input byte,
\* in input order.
RECURSIVE PcmBytes(_)
PcmBytes(buf) ==
  IF buf = <<>> THEN <<>>
                ELSE WriteInt16LE(MuLawSample(Head(buf))) \o PcmBytes(Tail(buf))

\* The indices whose sample writeInt16LE refuses.
OutOfRange(buf) ==
  {i \in 1..Len(buf) : MuLawSample(buf[i]) < Int16Min \/ MuLawSample(buf[i]) > Int16Max}

\* The first index of a non-empty set of indices.
First(I) == CHOOSE i \in I : \A j \in I : i <= j

\* A call muLawToPcm(muLawBuffer) about to be made, for every buffer of up
\* to MaxFrames bytes.
DecodeInit ==
  /\ SessionInit
  /\ GOOGLE_SPEECH_API_KEY = FALSE
  /\ codec \in {[pc |-> "muLawBuffer", muLawBuffer |-> b, result |-> <<>>, sample |-> 0] :
                  b \in UNION {[1..n -> Bytes] : n \in 0..MaxFrames}}

\* muLawToPcm(muLawBuffer): returns the filled result, or throws the
\* RangeError of the first write of a sample outside the 16-bit range.
MuLawToPcm ==
  /\ codec.pc = "muLawBuffer"
  /\ LET bad == OutOfRange(codec.muLawBuffer)
     IN  IF bad = {}
           THEN codec' = [codec EXCEPT !.pc = "returned",
                                       !.result = PcmBytes(codec.muLawBuffer)]
           ELSE codec' = [codec EXCEPT !.pc = "RangeError",
                            !.sample = MuLawSample(codec.muLawBuffer[First(bad)])]
  /\ UNCHANGED sessionVars

DecodeNext == MuLawToPcm

SpecDecode == DecodeInit /\ [][DecodeNext]_vars

\* ---- pcmToMuLaw on a whole buffer --------------------------------------
\* 16-bit samples a 16 kHz buffer is filled with
SampleValues == {Int16Min, -1000, 0, 1000, Int16Max}

\* The 16 kHz buffers of n 8 kHz frames: two 16-bit samples per frame.
PcmBuffers(n) == [1..(2 * n) -> SampleValues]

\* The first loop of pcmToMuLaw, for (i = 0; i < length; i += 4)
\* samples.push(readInt16LE(i)): byte offsets 0, 4, 8, ... are the 1st, 3rd,
\* 5th, ... samples of the buffer.
Samples(buf) == [i \in 1..((Len(buf) + 1) \div 2) |-> buf[2 * i - 1]]

\* The positions of the samples the first loop reads, and of those it skips.
Kept(buf) == {i \in 1..Len(buf) : i % 2 = 1}
Discarded(buf) == {i \in 1..Len(buf) : i % 2 = 0}

\* The body of the second loop of pcmToMuLaw for one sample.
MuLawByte(x) ==
  LET m == Magnitude(x)
      e == Exponent(m)
  IN  Invert(Fields(Sign(x), e, Mantissa(m, e)))

\* pcmToMuLaw(pcmBuffer): its argument, the samples array and the buffer it
\* returns.
PcmToMuLaw(buf) ==
  [pcmBuffer |-> buf,
   samples |-> Samples(buf),
   muLawBuffer |-> [i \in 1..Len(Samples(buf)) |-> MuLawByte(Samples(buf)[i])]]

\* A call of pcmToMuLaw not made yet.
NotCalled(buf) == [pcmBuffer |-> buf, samples |-> <<>>, muLawBuffer |-> <<>>]

\* Two calls of pcmToMuLaw about to be made, on buffers of the same length
\* that agree at every position the first loop reads and differ at a
\* position it skips.
ResampleInit ==
  /\ SessionInit
  /\ GOOGLE_SPEECH_API_KEY = FALSE
  /\ \E n \in 1..MaxFrames : \E a, b \in PcmBuffers(n) :
       /\ \A i \in Kept(a) : a[i] = b[i]
       /\ \E i \in Discarded(a) : a[i] # b[i]
       /\ codec = [pc |-> "pcmBuffer", call |-> <<NotCalled(a), NotCalled(b)>>]

\* Both calls are made.
PcmToMuLawCalls ==
  /\ codec.pc = "pcmBuffer"
  /\ codec' = [pc |-> "returned",
               call |-> <<PcmToMuLaw(codec.call[1].pcmBuffer),
                          PcmToMuLaw(codec.call[2].pcmBuffer)>>]
  /\ UNCHANGED sessionVars

ResampleNext == PcmToMuLawCalls

SpecResample == ResampleInit /\ [][ResampleNext]_vars

\* ---- claims -------------------------------------------------------------

\* C1: at most one reply cycle is in flight per call at any time; a media
\* event that arrives while an earlier cycle of the same call has not
\* finished starts no second cycle.
C1_OneCycleInFlight ==
  \A i, j \in Cycles :
    (i # j /\ InFlight(i) /\ InFlight(j)) => callSid(i) # callSid(j)

\* C2: once a socket has closed (socket-close event or inbound `closed`
\* event handled) no further clear or media message is sent on it.
C2_NoSendAfterClose ==
  [][\A s \in Sockets :
       sockState[s] \in {"closing", "closed"} => sent'[s] = sent[s]]_vars

\* C3: on every socket the outbound messages are a sequence of pairs: a
\* clear immediately followed by the media of the same reply cycle, with
\* nothing of another cycle in between.
C3_ClearThenMedia ==
  \A s \in Sockets :
    /\ Len(sent[s]) % 2 = 0
    /\ \A i \in 1..Len(sent[s]) :
         IF i % 2 = 1
           THEN /\ sent[s][i].event = "clear"
                /\ sent[s][i + 1].event = "media"
                /\ sent[s][i + 1].cycle = sent[s][i].cycle
           ELSE sent[s][i].event = "media"

\* Two cycles of one socket ran concurrently and sent in the reverse order.
C3_Witness ==
  \E s \in Sockets :
    /\ Len(sent[s]) = 4
    /\ sent[s][1].cycle > sent[s][3].cycle

\* C4: a synthesis failure is caught inside the pipeline; no error escapes
\* the message handler and the session goes on.
C4_SynthesisFailureCaught == uncaught # "SynthesisError"

\* C5: when reply generation fails for a non-empty transcript the reply is
\* the echo of the utterance, no error is raised, the registry and the
\* sockets are untouched and the cycle goes on to synthesis; when synthesis
\* returns, the cycle sends its clear + media burst for the echo.
C5_FallbackReply ==
  [][\A k \in Cycles :
       /\ LLMFail(k) =>
            /\ cycles'[k].pc = "tts"
            /\ cycles'[k].reply = [tag |-> "echo", k |-> cycles[k].transcript.k]
            /\ cycles[k].transcript.tag = "utter"
            /\ uncaught' = NoError
            /\ connections' = connections
            /\ sockState' = sockState
            /\ handlers' = handlers
       /\ (cycles[k].pc = "tts" /\ cycles[k].llmFailed
             /\ \E n \in 1..MaxSamples : SynthReturn(k, n)) =>
            /\ Len(sent'[cycles[k].ws]) = Len(sent[cycles[k].ws]) + 2
            /\ sent'[cycles[k].ws][Len(sent[cycles[k].ws]) + 1].event = "clear"
            /\ sent'[cycles[k].ws][Len(sent[cycles[k].ws]) + 2].event = "media"
            /\ sent'[cycles[k].ws][Len(sent[cycles[k].ws]) + 2].cycle = k
            /\ sent'[cycles[k].ws][Len(sent[cycles[k].ws]) + 2].text =
                 [tag |-> "echo", k |-> k]
            /\ sent'[cycles[k].ws][Len(sent[cycles[k].ws]) + 2].len > 0]_vars

\* A burst synthesized from a fallback reply was sent, and its socket is
\* still registered for a call.
C5_Witness ==
  \E s \in Sockets : \E i \in 1..Len(sent[s]) :
    /\ sent[s][i].text.tag = "echo"
    /\ \E c \in CallIds : connections[c] = s

C7_OneLiveSocketPerCall ==
  \A s, t \in Sockets :
    (s # t /\ sockCid[s] # NoCid /\ sockCid[s] = sockCid[t])
      => ~(sockState[s] = "open" /\ sockState[t] = "open")

\* C8: a socket that connects without a call identifier is closed, gets no
\* listeners and no registry entry, and nothing received on it starts a
\* reply cycle or produces outbound messages.
C8_NoCallIdRefused ==
  /\ [](\A s \in Sockets :
          (sockState[s] # "fresh" /\ sockCid[s] = NoCid) =>
            /\ sockState[s] \in {"closing", "closed"}
            /\ ~handlers[s]
            /\ sent[s] = <<>>
            /\ \A c \in CallIds : connections[c] # s
            /\ \A k \in Cycles : cycles[k].sock # s /\ cycles[k].ws # s)
  /\ [][\A s \in Sockets :
          Connection(s, NoCid) =>
            /\ sockState'[s] = "closing"
            /\ ~handlers'[s]
            /\ connections' = connections
            /\ cycles' = cycles
            /\ sent' = sent]_vars

\* A refused socket, not yet closed, beside a registered one.
C8_Witness ==
  \E s, t \in Sockets :
    /\ sockCid[s] = NoCid
    /\ sockState[s] = "closing"
    /\ sockState[t] = "open"
    /\ connections[sockCid[t]] = t

\* C9: handling a `closed` event or a socket-close event removes the
\* call's registry entry and no other, whatever the pipeline is doing;
\* removing an absent entry changes nothing.
C9_CloseUnregisters ==
  [][\A s \in Sockets :
       ((SocketClose(s) /\ handlers[s]) \/ OnMessageClosed(s)) =>
         /\ connections'[sockCid[s]] = NoSocket
         /\ \A c \in CallIds : c # sockCid[s] => connections'[c] = connections[c]
         /\ (connections[sockCid[s]] = NoSocket => connections' = connections)
         /\ cycles' = cycles]_vars

\* A socket was closed while its reply cycle is in flight, and its call
\* has no registry entry.
C9_Witness ==
  \E k \in Cycles :
    /\ InFlight(k)
    /\ sockState[cycles[k].sock] = "closed"
    /\ connections[callSid(k)] = NoSocket

\* C10: a call identifier with no live session has no turns in the
\* history store.
C10_HistoryDiscarded ==
  \A c \in CallIds :
    connections[c] = NoSocket => conversationHistory[c].turns = <<>>

\* C11: a message that is not valid JSON, is JSON but not an object (such
\* as null), has no event field or an unknown event is dropped: no error
\* is raised and the session keeps going.
C11_MalformedDropped == uncaught # "TypeError"

\* C12: a step taken for call A (a message or close on one of its sockets,
\* an adapter result or failure in one of its reply cycles) leaves every
\* other call's registry entry, history and reply cycles as they are.
C12_CallsIndependent ==
  [][\A a \in CallIds :
       (\/ \E s \in Sockets :
              /\ sockCid[s] = a
              /\ \/ SocketClose(s) \/ OnMessageBadJson(s) \/ OnMessageNull(s)
                 \/ OnMessageOther(s) \/ OnMessageClosed(s)
                 \/ \E p \in BOOLEAN : OnMessageMedia(s, p)
        \/ \E k \in Cycles :
              /\ InFlight(k)
              /\ callSid(k) = a
              /\ \/ TranscribeFail(k) \/ LLMFail(k) \/ SynthFail(k)
                 \/ \E t \in {Empty, Blank, Utter(k)} : TranscribeReturn(k, t)
                 \/ \E r \in {Empty, LLMText(k)} : LLMReturn(k, r)
                 \/ \E n \in 1..MaxSamples : SynthReturn(k, n))
       => \A b \in CallIds \ {a} :
            /\ connections'[b] = connections[b]
            /\ conversationHistory'[b] = conversationHistory[b]
            /\ \A j \in Cycles :
                 (InFlight(j) /\ callSid(j) = b) => cycles'[j] = cycles[j]]_vars

\* C13: a media event handled while its call identifier has no registry
\* entry is dropped: no cycle starts, no history is created or changed,
\* nothing is sent.
C13_MediaWithoutSessionDropped ==
  [][\A s \in Sockets :
       (/\ sockCid[s] # NoCid
        /\ connections[sockCid[s]] = NoSocket
        /\ \E p \in BOOLEAN : OnMessageMedia(s, p))
       => /\ cycles' = cycles
          /\ conversationHistory' = conversationHistory
          /\ sent' = sent
          /\ connections' = connections]_vars

\* A socket that still receives messages while its call identifier has no
\* registry entry, and a media event could still start a cycle.
C13_Witness ==
  \E s \in Sockets :
    /\ ProcessUp
    /\ handlers[s]
    /\ Deliverable(s)
    /\ sockCid[s] # NoCid
    /\ connections[sockCid[s]] = NoSocket
    /\ GOOGLE_SPEECH_API_KEY
    /\ Len(cycles) < MaxCycles
    /\ Events < MaxEvents

\* The quantisation step of the segment |x| falls in.
SegmentStep(x) == Pow2(Exponent(Magnitude(x)) + 3)

\* C14: decode(encode(x)) has the sign of x and a magnitude within the
\* quantisation step of x's segment of |x|.
C14_RoundTrip ==
  codec.pc \in {"decoded", "RangeError"} =>
    /\ codec.pc = "decoded"
    /\ (codec.x < 0) = (codec.sample < 0)
    /\ LET a == IF codec.sample < 0 THEN -codec.sample ELSE codec.sample
           d == a - Magnitude(codec.x)
       IN  d <= SegmentStep(codec.x) /\ -d <= SegmentStep(codec.x)

\* C15: on a socket, bursts are sent in the order in which their media
\* events arrived (cycles are numbered in arrival order).
C15_RepliesInArrivalOrder ==
  \A s \in Sockets : \A i, j \in 1..Len(sent[s]) :
    i < j => sent[s][i].cycle <= sent[s][j].cycle

\* C16: while reply generation is pending, and after it failed, the
\* history of the call holds the caller turn of that cycle.
C16_CallerTurnBeforeReply ==
  \A k \in Cycles :
    cycles[k].pc \in {"llm", "tts"} =>
      \E i \in 1..Len(conversationHistory[callSid(k)].turns) :
        conversationHistory[callSid(k)].turns[i] =
          [role |-> "user", content |-> cycles[k].transcript]

\* C17: the burst answering a media event received on socket S is sent on
\* S: a cycle's send target is the socket its event arrived on.
C17_ReplyOnReceivingSocket ==
  \A k \in Cycles : InFlight(k) => cycles[k].ws = cycles[k].sock

C19_NoEmptyBurst ==
  \A s \in Sockets : \A i \in 1..Len(sent[s]) :
    sent[s][i].event = "media" =>
      (sent[s][i].text.tag # "empty" /\ sent[s][i].len > 0)

\* C20: for every 16-bit sample the fields encode assembles are well
\* formed: magnitude at most 32635, exponent in 0..7, mantissa in 0..15,
\* and bit 7 of the assembled value set exactly when the sample is
\* negative.
C20_EncodeFields ==
  codec.pc = "mulaw" =>
    /\ codec.magnitude <= 32635
    /\ codec.exponent \in 0..7
    /\ codec.mantissa \in 0..15
    /\ (codec.sign = 128) = (codec.x < 0)
    /\ ((255 - codec.muLaw) \div 128 = 1) = (codec.x < 0)

\* C21: muLawToPcm is total over byte input: for every buffer of bytes
\* 0..255 the call returns, every decoded sample lies in -32768..32767, the
\* output has two bytes per input byte, and an empty input gives an empty
\* output.
C21_DecodeTotal ==
  codec.pc \in {"returned", "RangeError"} =>
    /\ codec.pc = "returned"
    /\ \A i \in 1..Len(codec.muLawBuffer) :
         MuLawSample(codec.muLawBuffer[i]) \in Int16Min..Int16Max
    /\ Len(codec.result) = 2 * Len(codec.muLawBuffer)
    /\ (codec.muLawBuffer = <<>> => codec.result = <<>>)

\* C22: the 16 kHz -> 8 kHz resampling of pcmToMuLaw is not decimation:
\* two buffers that differ only in samples at the skipped positions give
\* different resampled samples, the ones the output bytes are computed
\* from.
C22_NotDecimation ==
  codec.pc = "returned" => codec.call[1].samples # codec.call[2].samples

====
